---- MODULE Spec2Model ----
(***************************************************************************)
(* Model of csvpred's predicate query language: the pyparsing grammar of   *)
(* src/query/grammar.py, the AST nodes and their evaluate methods of       *)
(* src/query/nodes.py, and Parser.parse of src/query/parser.py.            *)
(*                                                                         *)
(* A query is a sequence of one-character strings.  Parse locations are    *)
(* 0-based offsets as in pyparsing (the character at location loc is       *)
(* s[loc + 1]); reported columns are 1-based.                              *)
(***************************************************************************)
EXTENDS Integers, Sequences, FiniteSets, TLC

(***************************************************************************)
(* Bounds of the explored inputs.                                          *)
(***************************************************************************)
\* numeric literals of generated comparisons and numeric row values are 0..MaxNum
MaxNum == 1

(***************************************************************************)
(* Characters.                                                             *)
(***************************************************************************)
LowerSeq == <<"a","b","c","d","e","f","g","h","i","j","k","l","m",
              "n","o","p","q","r","s","t","u","v","w","x","y","z">>

UpperSeq == <<"A","B","C","D","E","F","G","H","I","J","K","L","M",
              "N","O","P","Q","R","S","T","U","V","W","X","Y","Z">>

DigitSeq == <<"0","1","2","3","4","5","6","7","8","9">>

Range(f) == {f[i] : i \in DOMAIN f}

\* pp.alphas, pp.nums, pp.alphanums
Alphas == Range(LowerSeq) \cup Range(UpperSeq)

Nums == Range(DigitSeq)

Alphanums == Alphas \cup Nums

\* str.upper() and str.lower() on one character
Upper(c) == IF \E i \in 1..26 : LowerSeq[i] = c
            THEN UpperSeq[CHOOSE i \in 1..26 : LowerSeq[i] = c]
            ELSE c

Lower(c) == IF \E i \in 1..26 : UpperSeq[i] = c
            THEN LowerSeq[CHOOSE i \in 1..26 : UpperSeq[i] = c]
            ELSE c

LowerStr(w) == [i \in 1..Len(w) |-> Lower(w[i])]

DigitVal(c) == (CHOOSE i \in 1..10 : DigitSeq[i] = c) - 1

\* Keyword.DEFAULT_KEYWORD_CHARS (alphanums + "_$"), upper-cased by CaselessKeyword
IdentChars == {Upper(c) : c \in Alphanums} \cup {"_", "$"}

\* ParserElement.DEFAULT_WHITE_CHARS
WhiteChars == {" ", "\n", "\t", "\r"}

\* ordinal of a character, for Python's lexicographic string ordering
CharSeq == <<" ", "!", "\"", "$", "&", "'", "(", ")", "+", "-", ".">> \o DigitSeq
           \o <<"<", "=", ">", "@">> \o UpperSeq \o <<"^", "_">> \o LowerSeq \o <<"|">>

Ord(c) == CHOOSE i \in 1..Len(CharSeq) : CharSeq[i] = c

(***************************************************************************)
(* Values: Python scalars.  A number is m * 10^e; a bool is the int 0/1    *)
(* with its own type tag; a string is a sequence of characters.            *)
(***************************************************************************)
IntV(n) == [type |-> "int", m |-> n, e |-> 0, str |-> <<>>]

FloatV(mant, exp) == [type |-> "float", m |-> mant, e |-> exp, str |-> <<>>]

StrV(w) == [type |-> "str", m |-> 0, e |-> 0, str |-> w]

BoolV(b) == [type |-> "bool", m |-> IF b THEN 1 ELSE 0, e |-> 0, str |-> <<>>]

NoneV == [type |-> "None", m |-> 0, e |-> 0, str |-> <<>>]

IsNumV(v) == v.type \in {"int", "float", "bool"}

RECURSIVE Pow10(_)
Pow10(n) == IF n <= 0 THEN 1 ELSE 10 * Pow10(n - 1)

Min2(a, b) == IF a < b THEN a ELSE b

\* the numerator of v over the common denominator 10^-Min2(v.e, w.e)
Scaled(v, w) == v.m * Pow10(v.e - Min2(v.e, w.e))

\* Python == on scalars
PyEq(v, w) ==
    IF IsNumV(v) /\ IsNumV(w) THEN Scaled(v, w) = Scaled(w, v)
    ELSE IF v.type = "str" /\ w.type = "str" THEN v.str = w.str
    ELSE v.type = "None" /\ w.type = "None"

RECURSIVE StrLess(_, _)
StrLess(a, b) ==
    IF b = <<>> THEN FALSE
    ELSE IF a = <<>> THEN TRUE
    ELSE IF Ord(Head(a)) # Ord(Head(b)) THEN Ord(Head(a)) < Ord(Head(b))
    ELSE StrLess(Tail(a), Tail(b))

\* Python < is defined between two numbers and between two strings only
Orderable(v, w) == (IsNumV(v) /\ IsNumV(w)) \/ (v.type = "str" /\ w.type = "str")

PyLess(v, w) == IF IsNumV(v) THEN Scaled(v, w) < Scaled(w, v) ELSE StrLess(v.str, w.str)

\* Python truthiness, as used by `not`
Truthy(v) == IF IsNumV(v) THEN v.m # 0
             ELSE IF v.type = "str" THEN v.str # <<>>
             ELSE FALSE

(***************************************************************************)
(* AST nodes (ASTNode.children) and grouped parse results.                 *)
(***************************************************************************)
Node(t, kids) == [type |-> t, children |-> kids]

\* a pp.Group / ParseResults list that no parse action turned into a node
ParseResults(kids) == Node("ParseResults", kids)

(***************************************************************************)
(* Match results: ok with the new location and tokens, or a ParseException *)
(* carrying its loc.                                                       *)
(***************************************************************************)
Ok(l, t) == [ok |-> TRUE, loc |-> l, toks |-> t]

Fail(l) == [ok |-> FALSE, loc |-> l, toks |-> <<>>]

RECURSIVE preParse(_, _)
preParse(s, loc) ==
    IF loc < Len(s) /\ s[loc + 1] \in WhiteChars THEN preParse(s, loc + 1) ELSE loc

\* s starts with the characters w at location p
StartsWith(s, p, w) == p + Len(w) <= Len(s) /\ \A i \in 1..Len(w) : s[p + i] = w[i]

\* the number of leading characters of s from location p that are in set cs
RECURSIVE Span(_, _, _)
Span(s, p, cs) == IF p < Len(s) /\ s[p + 1] \in cs THEN 1 + Span(s, p + 1, cs) ELSE 0

SubStr(s, p, n) == [i \in 1..n |-> s[p + i]]

(***************************************************************************)
(* Lexical grammar (src/query/grammar.py).  Every element first skips      *)
(* leading whitespace (ParserElement.preParse) and, when it does not       *)
(* match, raises a ParseException located after that whitespace.           *)
(***************************************************************************)
\* pp.Suppress("("), pp.Suppress(")"), pp.Suppress("."): a one-character literal, no token
Suppress(s, loc, ch) ==
    LET p == preParse(s, loc)
    IN  IF p < Len(s) /\ s[p + 1] = ch THEN Ok(p + 1, <<>>) ELSE Fail(p)

lparen(s, loc) == Suppress(s, loc, "(")

rparen(s, loc) == Suppress(s, loc, ")")

\* pp.CaselessKeyword(kw): kw in any letter case, not adjacent to a keyword
\* character; the token is the keyword as it was defined
CaselessKeyword(s, loc, kw) ==
    LET p == preParse(s, loc)
        n == Len(kw)
    IN  IF p + n <= Len(s) /\ \A i \in 1..n : Upper(s[p + i]) = Upper(kw[i])
        THEN IF p = 0 \/ Upper(s[p]) \notin IdentChars
             THEN IF p >= Len(s) - n \/ Upper(s[p + n + 1]) \notin IdentChars
                  THEN Ok(p + n, <<StrV(kw)>>)
                  ELSE Fail(p + n)
             ELSE Fail(p - 1)
        ELSE Fail(p)

and_ == <<"A", "N", "D">>

and_symbol == <<"&", "&">>

or_ == <<"O", "R">>

or_symbol == <<"|", "|">>

not_ == <<"N", "O", "T">>

not_symbol == <<"!">>

xor_ == <<"X", "O", "R">>

xor_symbol == <<"^">>

\* two alternatives of a pp.MatchFirst: the first match, else the exception
\* located furthest (the first one on a tie)
MatchFirst(r1, r2) == IF r1.ok THEN r1
                      ELSE IF r2.ok \/ r2.loc > r1.loc THEN r2 ELSE r1

\* pp.MatchFirst over a list of keywords
RECURSIVE KeywordChoice(_, _, _)
KeywordChoice(s, loc, kws) ==
    IF Len(kws) = 1 THEN CaselessKeyword(s, loc, kws[1])
    ELSE MatchFirst(CaselessKeyword(s, loc, kws[1]), KeywordChoice(s, loc, Tail(kws)))

\* pp.Group(e) with the parse action of node class t, which keeps the tokens
\* as the node's children; without parse actions the group stays a list
Group(t, da, r) ==
    IF ~r.ok THEN r
    ELSE Ok(r.loc, IF da THEN <<Node(t, r.toks)>> ELSE <<ParseResults(r.toks)>>)

\* ParserElement._parse of the grammar element named e (defined below, after
\* the elements)
RECURSIVE parse_element(_, _, _, _)

\* r, with the tokens toks before its own
Prepend(toks, r) == IF r.ok THEN Ok(r.loc, toks \o r.toks) ELSE r

\* pp.And of two, three or four elements, given what each gave from where the
\* one before it ended: the first exception, else all the tokens
Seq2(r1, r2) == IF ~r1.ok THEN r1 ELSE Prepend(r1.toks, r2)

Seq3(r1, r2, r3) == IF ~r1.ok THEN r1 ELSE Prepend(r1.toks, Seq2(r2, r3))

Seq4(r1, r2, r3, r4) == IF ~r1.ok THEN r1 ELSE Prepend(r1.toks, Seq3(r2, r3, r4))

\* BoolUnaryOperator.parse: operator = tokens[0][0], the keyword inside the Group
bool_unary_operator(s, loc, da) ==
    Group("BoolUnaryOperator", da, KeywordChoice(s, loc, <<not_, not_symbol>>))

\* BoolBinaryOperator.parse: operator = tokens[0][0], the keyword inside the Group
bool_binary_operator(s, loc, da) ==
    Group("BoolBinaryOperator", da,
          KeywordChoice(s, loc, <<and_, and_symbol, or_, or_symbol, xor_, xor_symbol>>))

\* the value of a sequence of decimal digits
RECURSIVE DigitsVal(_)
DigitsVal(w) ==
    IF w = <<>> THEN 0 ELSE 10 * DigitsVal(SubSeq(w, 1, Len(w) - 1)) + DigitVal(w[Len(w)])

\* a float as mantissa and exponent without trailing zeros in the mantissa
RECURSIVE NormFloat(_, _)
NormFloat(mant, exp) ==
    IF mant = 0 THEN FloatV(0, 0)
    ELSE IF mant % 10 = 0 THEN NormFloat(mant \div 10, exp + 1)
    ELSE FloatV(mant, exp)

SignLen(s, p) == IF p < Len(s) /\ s[p + 1] \in {"+", "-"} THEN 1 ELSE 0

SignOf(s, p) == IF p < Len(s) /\ s[p + 1] = "-" THEN -1 ELSE 1

\* pp.Regex(r"[+-]?\d+") with parse action int(tokens[0])
literal_integer(s, loc, da) ==
    LET p == preParse(s, loc)
        sg == SignLen(s, p)
        n == Span(s, p + sg, Nums)
    IN  IF n = 0 THEN Fail(p)
        ELSE Ok(p + sg + n,
                IF da THEN <<IntV(SignOf(s, p) * DigitsVal(SubStr(s, p + sg, n)))>>
                      ELSE <<StrV(SubStr(s, p, sg + n))>>)

\* pp.Regex(r"[+-]?\d+\.\d*([Ee][+-]?\d+)?") with parse action float(tokens[0])
literal_float(s, loc, da) ==
    LET p == preParse(s, loc)
        sg == SignLen(s, p)
        nI == Span(s, p + sg, Nums)
        dot == p + sg + nI
        nF == Span(s, dot + 1, Nums)
        ex == dot + 1 + nF
        hasE == ex < Len(s) /\ s[ex + 1] \in {"E", "e"}
        esg == IF hasE THEN SignLen(s, ex + 1) ELSE 0
        nE == IF hasE THEN Span(s, ex + 1 + esg, Nums) ELSE 0
        end == IF nE > 0 THEN ex + 1 + esg + nE ELSE ex
        mant == SignOf(s, p) * DigitsVal(SubStr(s, p + sg, nI) \o SubStr(s, dot + 1, nF))
        expo == IF nE > 0 THEN SignOf(s, ex + 1) * DigitsVal(SubStr(s, ex + 1 + esg, nE))
                ELSE 0
    IN  IF nI > 0 /\ dot < Len(s) /\ s[dot + 1] = "."
        THEN Ok(end, IF da THEN <<NormFloat(mant, expo - nF)>>
                           ELSE <<StrV(SubStr(s, p, end - p))>>)
        ELSE Fail(p)

\* the comparison operators in the order pp.one_of tries them
CmpOperators == << <<"!", "=">>, <<"=", "=">>, <<"<", "=">>, <<">", "=">>, <<"<">>, <<">">> >>

\* pp.one_of(["!=", "==", "<=", ">=", "<", ">"]) with CmpOperator.parse
cmp_operator(s, loc, da) ==
    LET p == preParse(s, loc)
        hits == {i \in 1..Len(CmpOperators) : StartsWith(s, p, CmpOperators[i])}
        first == CmpOperators[CHOOSE i \in hits : \A j \in hits : i <= j]
    IN  IF hits = {} THEN Fail(p)
        ELSE Ok(p + Len(first), IF da THEN <<Node("CmpOperator", <<StrV(first)>>)>>
                                      ELSE <<StrV(first)>>)

\* the characters a quoted string may hold: anything but the quote and line ends
QuotedBody == Range(CharSeq) \ {"\""}

\* pp.QuotedString('"'): the text between two double quotes, taken verbatim
quoted_string(s, loc) ==
    LET p == preParse(s, loc)
        n == Span(s, p + 1, QuotedBody)
    IN  IF p < Len(s) /\ s[p + 1] = "\"" /\ p + 1 + n < Len(s) /\ s[p + n + 2] = "\""
        THEN Ok(p + n + 2, <<StrV(SubStr(s, p + 1, n))>>)
        ELSE Fail(p)

\* pp.Word(pp.alphas + "_", pp.alphanums + "_")
unquoted_string(s, loc) ==
    LET p == preParse(s, loc)
        n == Span(s, p + 1, Alphanums \cup {"_"})
    IN  IF p < Len(s) /\ s[p + 1] \in Alphas \cup {"_"}
        THEN Ok(p + 1 + n, <<StrV(SubStr(s, p, 1 + n))>>)
        ELSE Fail(p)

\* (quoted_string | unquoted_string); its parse action returns tokens[0] unchanged
literal_string(s, loc) == MatchFirst(quoted_string(s, loc), unquoted_string(s, loc))

\* LiteralValue.parse: value = tokens[0]
LiteralValue_parse(da, r) ==
    IF ~r.ok \/ ~da THEN r ELSE Ok(r.loc, <<Node("LiteralValue", <<r.toks[1]>>)>>)

\* (literal_float | literal_integer | literal_string) with LiteralValue.parse
literal_value(s, loc, da) ==
    LiteralValue_parse(da, MatchFirst(literal_float(s, loc, da),
                                      MatchFirst(literal_integer(s, loc, da),
                                                 literal_string(s, loc))))

\* pp.Group(pp.Suppress(".") + literal_string) with Attribute.parse
attribute(s, loc, da) ==
    LET d == Suppress(s, loc, ".")
        r == literal_string(s, d.loc)
    IN  Group("Attribute", da, Seq2(d, r))

\* pp.Group(attribute) with Identifier.parse
identifier(s, loc, da) == Group("Identifier", da, attribute(s, loc, da))

\* pp.Group(identifier + cmp_operator + literal_value) with Comparison.parse
comparison(s, loc, da) ==
    LET i == identifier(s, loc, da)
        o == cmp_operator(s, i.loc, da)
        v == literal_value(s, o.loc, da)
    IN  Group("Comparison", da, Seq3(i, o, v))

\* pp.Group(comparison + bool_binary_operator + comparison) with BinaryExpression.parse
binary_expression(s, loc, da) ==
    LET l == parse_element("comparison", s, loc, da)
        o == bool_binary_operator(s, l.loc, da)
        r == parse_element("comparison", s, o.loc, da)
    IN  Group("BinaryExpression", da, Seq3(l, o, r))

\* pp.Opt(e): e's match, or no token at the location after the whitespace
Opt(s, loc, r) == IF r.ok THEN r ELSE Ok(preParse(s, loc), <<>>)

(***************************************************************************)
(* Expression grammar (src/query/grammar.py).  da is pyparsing's doActions *)
(* flag: parse actions run when it is TRUE; the look-ahead of              *)
(* pp.infix_notation matches with doActions = FALSE.                       *)
(***************************************************************************)
\* NegateExpression.parse: the operator check passes for both keywords of
\* bool_unary_operator; the node keeps the negated expression, tokens[0][1]
NegateExpression_parse(da, r) ==
    IF ~r.ok THEN r
    ELSE Ok(r.loc, IF da THEN <<Node("NegateExpression", <<r.toks[2]>>)>>
                         ELSE <<ParseResults(r.toks)>>)

\* pp.Group(bool_unary_operator + expression) with NegateExpression.parse
negate_expression(s, loc, da) ==
    LET o == bool_unary_operator(s, loc, da)
        x == parse_element("expression", s, o.loc, da)
    IN  NegateExpression_parse(da, Seq2(o, x))

\* lparen + expression + rparen
paren_expression(s, loc, da) ==
    LET l == lparen(s, loc)
        x == parse_element("expression", s, l.loc, da)
        r == rparen(s, x.loc)
    IN  Seq3(l, x, r)

\* Expression.parse wraps tokens[0] and drops the rest; on no token its
\* IndexError becomes a ParseException that pyparsing creates with loc 0
Expression_parse(da, toks, loc) ==
    IF toks = <<>> THEN (IF da THEN Fail(0) ELSE Ok(loc, toks))
    ELSE Ok(loc, IF da THEN <<Node("Expression", <<toks[1]>>)>> ELSE toks)

\* seven optional elements in sequence, with Expression.parse
expression(s, loc, da) ==
    LET r1 == Opt(s, loc, parse_element("binary_expression", s, loc, da))
        l1 == r1.loc
        r2 == Opt(s, l1, parse_element("negate_expression", s, l1, da))
        l2 == r2.loc
        r3 == Opt(s, l2, parse_element("comparison", s, l2, da))
        l3 == r3.loc
        r4 == Opt(s, l3, parse_element("paren_expression", s, l3, da))
        l4 == r4.loc
        r5 == Opt(s, l4, identifier(s, l4, da))
        l5 == r5.loc
        r6 == Opt(s, l5, attribute(s, l5, da))
        l6 == r6.loc
        r7 == Opt(s, l6, literal_value(s, l6, da))
    IN  Expression_parse(da,
                         r1.toks \o r2.toks \o r3.toks \o r4.toks \o r5.toks \o r6.toks
                             \o r7.toks,
                         r7.loc)

\* the operator levels handed to pp.infix_notation, tightest first
OpLevels == << <<and_, and_symbol>>, <<or_, or_symbol>>, <<xor_, xor_symbol>> >>

\* the operand element of each level: the base for the first, else the level before
LastExpr == <<"lastExpr", "thisExpr_AND", "thisExpr_OR">>

\* BoolBinaryOperator.parse on a keyword outside any Group: tokens[0] is the
\* keyword itself and operator = tokens[0][0] its first character
BoolBinaryOperator_parse(da, r) ==
    IF ~r.ok \/ ~da THEN r
    ELSE Ok(r.loc, <<Node("BoolBinaryOperator", <<StrV(SubSeq(r.toks[1].str, 1, 1))>>)>>)

\* opExpr of level k: (and_ | and_symbol) etc. with BoolBinaryOperator.parse
infix_operator(s, loc, k, da) == BoolBinaryOperator_parse(da, KeywordChoice(s, loc, OpLevels[k]))

\* pp.ZeroOrMore: what the repetition gave, or nothing from loc when its
\* first element r does not match
ZeroOrMore(loc, r, rest) == IF ~r.ok THEN Ok(loc, <<>>) ELSE Prepend(r.toks, rest)

\* (opExpr + lastExpr)[...]: repeat while it matches
RECURSIVE infix_more(_, _, _, _)
infix_more(s, loc, k, da) ==
    LET o == infix_operator(s, loc, k, da)
        x == parse_element(LastExpr[k], s, o.loc, da)
        rest == infix_more(s, x.loc, k, da)
    IN  ZeroOrMore(loc, Seq2(o, x), rest)

\* pp.FollowedBy(e) + then: e only has to match, from the same location
FollowedBy(ahead, then) == IF ahead.ok THEN then ELSE Fail(ahead.loc)

\* level k of pp.infix_notation:
\* (_FB(lastExpr + opExpr + lastExpr) + Group(lastExpr + (opExpr + lastExpr)[1, ...])) | lastExpr
infix_level(s, loc, k, da) ==
    LET a1 == parse_element(LastExpr[k], s, loc, FALSE)
        ao == infix_operator(s, a1.loc, k, FALSE)
        a2 == parse_element(LastExpr[k], s, ao.loc, FALSE)
        x == parse_element(LastExpr[k], s, loc, da)
        o == infix_operator(s, x.loc, k, da)
        y == parse_element(LastExpr[k], s, o.loc, da)
        more == infix_more(s, y.loc, k, da)
    IN  MatchFirst(FollowedBy(Seq3(a1, ao, a2),
                              Group("ParseResults", FALSE, Seq4(x, o, y, more))),
                   x)

\* Grammar.parse wraps tokens[0]
Grammar_parse(da, r) ==
    IF ~r.ok \/ ~da THEN r ELSE Ok(r.loc, <<Node("Grammar", <<r.toks[1]>>)>>)

\* ret, the last level of pp.infix_notation, with Grammar.parse
grammar(s, loc, da) == Grammar_parse(da, parse_element("thisExpr_XOR", s, loc, da))

\* the operand of the first level: base_expr | (lpar + ret + rpar)
lastExpr(s, loc, da) ==
    LET l == lparen(s, loc)
        g == parse_element("grammar", s, l.loc, da)
        r == rparen(s, g.loc)
    IN  MatchFirst(parse_element("expression", s, loc, da), Seq3(l, g, r))

\* ParserElement._parse: the element's own match and parse action
parse_element(e, s, loc, da) ==
    CASE e = "comparison" -> comparison(s, loc, da)
      [] e = "binary_expression" -> binary_expression(s, loc, da)
      [] e = "negate_expression" -> negate_expression(s, loc, da)
      [] e = "paren_expression" -> paren_expression(s, loc, da)
      [] e = "expression" -> expression(s, loc, da)
      [] e = "lastExpr" -> lastExpr(s, loc, da)
      [] e = "thisExpr_AND" -> infix_level(s, loc, 1, da)
      [] e = "thisExpr_OR" -> infix_level(s, loc, 2, da)
      [] e = "thisExpr_XOR" -> infix_level(s, loc, 3, da)
      [] e = "grammar" -> grammar(s, loc, da)

(***************************************************************************)
(* Parser.parse (src/query/parser.py).  The module's `from .nodes import   *)
(* Node` names a class nodes.py does not define (its base class is         *)
(* ASTNode) and serves only the annotation of dump_ast; parse is described *)
(* here as it is written, with that name resolved.                         *)
(***************************************************************************)
\* pyparsing's lineno and col of a location
lineno(loc, s) == 1 + Cardinality({i \in 1..Min2(loc, Len(s)) : s[i] = "\n"})

col(loc, s) ==
    LET nls == {i \in 1..Min2(loc, Len(s)) : s[i] = "\n"}
        last == IF nls = {} THEN 0 ELSE CHOOSE i \in nls : \A j \in nls : j <= i
    IN  loc + 1 - last

\* the StringEnd that parse_all=True appends: a ParseException of the grammar,
\* or input left at `end`, gives the line and column of ParserException
StringEnd(s, r, end) ==
    IF ~r.ok
    THEN [ok |-> FALSE, row |-> lineno(r.loc, s), column |-> col(r.loc, s), ast |-> <<>>]
    ELSE IF end < Len(s)
    THEN [ok |-> FALSE, row |-> lineno(end, s), column |-> col(end, s), ast |-> <<>>]
    ELSE [ok |-> TRUE, row |-> 0, column |-> 0, ast |-> r.toks]

\* parse_all=True: StringEnd is tried after the whitespace that follows r
ParseAll(s, r) == StringEnd(s, r, preParse(s, r.loc))

\* grammar.parse_string(original_input, parse_all=True): the grammar from
\* location 0; a ParseException becomes ParserException "Query syntax error
\* at line {row} col {column}"
Parser_parse(s) == ParseAll(s, parse_element("grammar", s, 0, TRUE))

(***************************************************************************)
(* Evaluation (src/query/nodes.py).  A row maps column names to scalars.   *)
(* An outcome is the value returned or the exception raised, with the      *)
(* columns looked up so far, in order.                                     *)
(***************************************************************************)
Returned(v, t) == [err |-> "none", val |-> v, trace |-> t]

Raised(e, t) == [err |-> e, val |-> NoneV, trace |-> t]

\* Attribute.evaluate: row[self.name], and None when the lookup raises KeyError
Attribute_evaluate(n, row) ==
    LET name == n.children[1].str
    IN  Returned(IF name \in DOMAIN row THEN row[name] ELSE NoneV, <<name>>)

\* Identifier.evaluate: delegates to its Attribute
Identifier_evaluate(n, row) ==
    IF n.children[1].type = "Attribute" THEN Attribute_evaluate(n.children[1], row)
    ELSE Raised("ValueError", <<>>)

\* Comparison.apply: Python's native comparison of the two operands
Comparison_apply(operator, left, right) ==
    IF operator = <<"=", "=">> THEN Returned(BoolV(PyEq(left, right)), <<>>)
    ELSE IF operator = <<"!", "=">> THEN Returned(BoolV(~PyEq(left, right)), <<>>)
    ELSE IF operator \notin {<<"<">>, <<"<", "=">>, <<">">>, <<">", "=">>}
    THEN Raised("ValueError", <<>>)
    ELSE IF ~Orderable(left, right) THEN Raised("TypeError", <<>>)
    ELSE IF operator = <<"<">> THEN Returned(BoolV(PyLess(left, right)), <<>>)
    ELSE IF operator = <<"<", "=">> THEN Returned(BoolV(~PyLess(right, left)), <<>>)
    ELSE IF operator = <<">">> THEN Returned(BoolV(PyLess(right, left)), <<>>)
    ELSE Returned(BoolV(~PyLess(left, right)), <<>>)

\* Comparison.evaluate: identifier, operator, literal, then apply
Comparison_evaluate(n, row) ==
    LET left == Identifier_evaluate(n.children[1], row)
        operator == n.children[2].children[1].str
        right == n.children[3].children[1]
        res == Comparison_apply(operator, left.val, right)
    IN  IF left.err # "none" THEN left
        ELSE [res EXCEPT !.trace = left.trace]

\* NegateExpression.apply("not", right)
NegateExpression_apply(right) == BoolV(~Truthy(right))

\* exec_bool_binary_operator (src/query/exec.py), which no node calls: `and`
\* and `or` as in BinaryExpression.apply, `not` for a unary operator, and no
\* `xor`
exec_bool_binary_operator(operator, left, right) ==
    LET op == LowerStr(operator)
    IN  IF op \in {<<"a", "n", "d">>, <<"&", "&">>}
        THEN Returned(IF Truthy(left) THEN right ELSE left, <<>>)
        ELSE IF op \in {<<"o", "r">>, <<"|", "|">>}
        THEN Returned(IF Truthy(left) THEN left ELSE right, <<>>)
        ELSE IF op \in {<<"n", "o", "t">>, <<"!">>}
        THEN Returned(BoolV(~Truthy(right)), <<>>)
        ELSE Raised("ValueError", <<>>)

\* BinaryExpression.apply on the operator in lower case: Python's `and`, `or`
\* and `^` (an inequality on the bools that comparisons return)
BinaryExpression_apply(operator, left, right) ==
    LET op == LowerStr(operator)
    IN  IF op \in {<<"a", "n", "d">>, <<"&", "&">>}
        THEN Returned(IF Truthy(left) THEN right ELSE left, <<>>)
        ELSE IF op \in {<<"o", "r">>, <<"|", "|">>}
        THEN Returned(IF Truthy(left) THEN left ELSE right, <<>>)
        ELSE IF op \in {<<"x", "o", "r">>, <<"^">>}
        THEN IF left.type = "bool" /\ right.type = "bool"
             THEN Returned(BoolV(left.m # right.m), <<>>)
             ELSE Raised("TypeError", <<>>)
        ELSE Raised("ValueError", <<>>)

RECURSIVE evaluate(_, _)
\* a short-circuiting evaluation, which the code does not have: the right
\* operand is skipped when the left one decides an `and` or an `or`
BinaryExpression_evaluate_short_circuit(n, row) ==
    LET left == evaluate(n.children[1], row)
        operator == n.children[2].children[1].str
        op == LowerStr(operator)
        right == evaluate(n.children[3], row)
        res == BinaryExpression_apply(operator, left.val, right.val)
    IN  IF left.err # "none" THEN left
        ELSE IF op \in {<<"a", "n", "d">>, <<"&", "&">>} /\ ~Truthy(left.val) THEN left
        ELSE IF op \in {<<"o", "r">>, <<"|", "|">>} /\ Truthy(left.val) THEN left
        ELSE IF right.err # "none" THEN Raised(right.err, left.trace \o right.trace)
        ELSE [res EXCEPT !.trace = left.trace \o right.trace]

\* BinaryExpression.evaluate: left operand, operator, right operand, then apply
BinaryExpression_evaluate(n, row) ==
    LET left == evaluate(n.children[1], row)
        operator == n.children[2].children[1].str
        right == evaluate(n.children[3], row)
        res == BinaryExpression_apply(operator, left.val, right.val)
    IN  IF left.err # "none" THEN left
        ELSE IF right.err # "none" THEN Raised(right.err, left.trace \o right.trace)
        ELSE [res EXCEPT !.trace = left.trace \o right.trace]

\* NegateExpression.evaluate
NegateExpression_evaluate(n, row) ==
    LET right == evaluate(n.children[1], row)
    IN  IF right.err # "none" THEN right
        ELSE Returned(NegateExpression_apply(right.val), right.trace)

\* Grammar.evaluate: only an Expression child is evaluated ("Unknown grammar")
Grammar_evaluate(n, row) ==
    IF n.children[1].type = "Expression" THEN evaluate(n.children[1], row)
    ELSE Raised("ValueError", <<>>)

\* the types Expression.evaluate accepts ("Unknown expression" otherwise)
accepted_types == {"Expression", "NegateExpression", "BinaryExpression",
                   "Comparison", "Identifier"}

Expression_evaluate(n, row) ==
    IF n.children[1].type \in accepted_types THEN evaluate(n.children[1], row)
    ELSE Raised("ValueError", <<>>)

\* node.evaluate(row), dispatched on the node's class
evaluate(n, row) ==
    IF n.type = "Grammar" THEN Grammar_evaluate(n, row)
    ELSE IF n.type = "Expression" THEN Expression_evaluate(n, row)
    ELSE IF n.type = "NegateExpression" THEN NegateExpression_evaluate(n, row)
    ELSE IF n.type = "BinaryExpression" THEN BinaryExpression_evaluate(n, row)
    ELSE IF n.type = "Comparison" THEN Comparison_evaluate(n, row)
    ELSE Identifier_evaluate(n, row)

\* run_filter(row) of csv_query: ast[0] must be a Grammar, then grammar.evaluate(row)
run_filter(ast, row) ==
    IF ast[1].type # "Grammar" THEN Raised("ValueError", <<>>)
    ELSE Grammar_evaluate(ast[1], row)

(***************************************************************************)
(* Inputs: the query texts handed to --query and the rows csv.DictReader   *)
(* yields.  A comparison is kept as its attribute, operator and numeric    *)
(* literal; its text is `.attr op literal`.                                *)
(***************************************************************************)
\* words joined by single spaces
RECURSIVE Join(_)
Join(ws) == IF Len(ws) = 0 THEN <<>>
            ELSE IF Len(ws) = 1 THEN ws[1]
            ELSE ws[1] \o <<" ">> \o Join(Tail(ws))

NumText(v) == <<DigitSeq[v + 1]>>

Cmp(a, o, v) == [attr |-> a, op |-> o, lit |-> v]

CmpText(c) == Join(<< <<".">> \o c.attr, c.op, NumText(c.lit) >>)

\* every comparison of one attribute with a number of 0..MaxNum
ComparisonsOf(a) == {Cmp(a, o, v) : o \in Range(CmpOperators), v \in 0..MaxNum}

\* the comparisons of one attribute with the number MaxNum, one per operator
EdgeComparisonsOf(a) == {Cmp(a, o, MaxNum) : o \in Range(CmpOperators)}

\* the equality comparisons of one attribute
EqComparisonsOf(a) == {Cmp(a, <<"=", "=">>, v) : v \in 0..MaxNum}

BinaryKeywords == {and_, or_, xor_}

\* `c`
SingleQueries == {[text |-> CmpText(c), c1 |-> c] : c \in ComparisonsOf(<<"a">>)}

\* `c1 OP c2`
PairQueries ==
    {[text |-> Join(<<CmpText(c1), k, CmpText(c2)>>), c1 |-> c1, op |-> k, c2 |-> c2] :
        c1 \in EdgeComparisonsOf(<<"a">>), k \in BinaryKeywords,
        c2 \in EdgeComparisonsOf(<<"b">>)}

\* `c1 OP1 c2 OP2 c3` for the operator orders OR AND, AND OR and XOR OR
TripleQueries ==
    {[text |-> Join(<<CmpText(c1), ks[1], CmpText(c2), ks[2], CmpText(c3)>>),
      c1 |-> c1, op1 |-> ks[1], c2 |-> c2, op2 |-> ks[2], c3 |-> c3] :
        c1 \in EqComparisonsOf(<<"a">>), c2 \in EqComparisonsOf(<<"b">>),
        c3 \in EqComparisonsOf(<<"a">>),
        ks \in {<<or_, and_>>, <<and_, or_>>, <<xor_, or_>>}}

\* `NOT c1 AND c2`
NotAndQueries ==
    {[text |-> Join(<<not_, CmpText(c1), and_, CmpText(c2)>>), c1 |-> c1, c2 |-> c2] :
        c1 \in EqComparisonsOf(<<"a">>), c2 \in EqComparisonsOf(<<"b">>)}

\* queries that hold no comparison: `.a`, a number, `hello`, and the empty query
BareQueries == {<<".", "a">>, NumText(MaxNum), <<"h", "e", "l", "l", "o">>, <<>>}

\* what may follow a comparison in the trailing-input queries: `)`, a number,
\* `.b` and `AND`
Trailers == {<<")">>, NumText(MaxNum), <<".", "b">>, and_}

\* `c t`: a comparison followed by further characters
TrailQueries ==
    {[text |-> Join(<<CmpText(c), x>>), c1 |-> c, trailer |-> x] :
        c \in EqComparisonsOf(<<"a">>), x \in Trailers}

\* `.attr = literal`, where `=` stands for the comparison operator
SingleEq(a, lit) == Join(<< <<".">> \o a, <<"=">>, lit >>)

\* what precedes the `=` comparison: nothing, `NOT `, or `c AND `
EqPrefixes == {<<>>, not_ \o <<" ">>}
              \cup {CmpText(c) \o <<" ">> \o and_ \o <<" ">> : c \in EqComparisonsOf(<<"a">>)}

\* queries with a single `=`, each with the 1-based column of its `=`
EqSignQueries ==
    {[text |-> pre \o SingleEq(<<"b">>, NumText(v)), column |-> Len(pre) + 4] :
        pre \in EqPrefixes, v \in 0..MaxNum}
    \cup {[text |-> SingleEq(<<"a", "v", "g">>, <<"0", ".", "5">>), column |-> 6]}

\* `.123 == 0.5` and `.+avg == 0.5`: the character after the dot starts no name
BadAttrQueries == {<<".", "1", "2", "3", " ", "=", "=", " ", "0", ".", "5">>,
                   <<".", "+", "a", "v", "g", " ", "=", "=", " ", "0", ".", "5">>}

\* `.Avg == 0.5` and `._avg == 0.5`, each with its attribute name
GoodAttrQueries ==
    {[text |-> <<".">> \o a \o <<" ", "=", "=", " ", "0", ".", "5">>, name |-> a] :
        a \in {<<"A", "v", "g">>, <<"_", "a", "v", "g">>}}

\* the texts of the string literals: bare words, then texts only quotes can hold
BareWords == {<<"t">>, <<"h", "e", "l", "l", "o">>}

QuotedTexts == BareWords \cup {<<>>, <<"a", " ", "b", "!">>}

NameEq == <<".", "n", "a", "m", "e", " ", "=", "=", " ">>

\* `.name == 't'`, `.name == "t"` and `.name == t`, each with the text t
StringQueries ==
    {[text |-> NameEq \o <<"'">> \o w \o <<"'">>, str |-> w, form |-> "single"] :
        w \in QuotedTexts}
    \cup {[text |-> NameEq \o <<"\"">> \o w \o <<"\"">>, str |-> w, form |-> "double"] :
            w \in QuotedTexts}
    \cup {[text |-> NameEq \o w, str |-> w, form |-> "bare"] : w \in BareWords}

\* `.avg >= 0.5 AND .active == true`
ExampleQuery == <<".", "a", "v", "g", " ", ">", "=", " ", "0", ".", "5", " ", "A", "N", "D", " ", ".", "a", "c", "t", "i", "v", "e", " ", "=", "=", " ", "t", "r", "u", "e">>

\* the symbol alias of a keyword
SymbolOf(kw) == IF kw = and_ THEN and_symbol
                ELSE IF kw = or_ THEN or_symbol
                ELSE IF kw = xor_ THEN xor_symbol
                ELSE not_symbol

\* a keyword as written, in lower case, capitalised (`And`), and as its symbol
Spellings(kw) == {kw, LowerStr(kw), <<kw[1]>> \o LowerStr(Tail(kw)), SymbolOf(kw)}

\* `k c` for every spelling k of NOT; base is the text with the keyword NOT
NegationQueries ==
    {[text |-> Join(<<k, CmpText(c)>>), base |-> Join(<<not_, CmpText(c)>>), c1 |-> c] :
        k \in Spellings(not_), c \in EqComparisonsOf(<<"a">>)}

\* `c1 k c2` for every spelling k of AND, OR and XOR; base is the text with
\* the keyword in upper case
SpelledPairQueries ==
    {[text |-> Join(<<CmpText(c1), k[2], CmpText(c2)>>),
      base |-> Join(<<CmpText(c1), k[1], CmpText(c2)>>)] :
        c1 \in {Cmp(<<"a">>, <<"=", "=">>, MaxNum)}, c2 \in EqComparisonsOf(<<"b">>),
        k \in UNION {{<<kw, w>> : w \in Spellings(kw)} : kw \in BinaryKeywords}}

\* `c1 k c2 k c3`, a chain of three comparisons, with k a keyword or its symbol
ChainQueries ==
    {[text |-> Join(<<CmpText(c1), k[2], CmpText(c2), k[2], CmpText(c3)>>),
      base |-> Join(<<CmpText(c1), k[1], CmpText(c2), k[1], CmpText(c3)>>)] :
        c1 \in {Cmp(<<"a">>, <<"=", "=">>, MaxNum)}, c2 \in EqComparisonsOf(<<"b">>),
        c3 \in EqComparisonsOf(<<"a">>),
        k \in UNION {{<<kw, kw>>, <<kw, SymbolOf(kw)>>} : kw \in BinaryKeywords}}

\* the queries that differ from a base query in the spelling of operators only
SpellingQueries ==
    {[text |-> q.text, base |-> q.base] : q \in NegationQueries}
    \cup SpelledPairQueries \cup ChainQueries

\* `( c1 )`, `( c1 OR c2 ) AND c3` and `c1 AND ( c2 OR c3 )`
ParenQueries ==
    {[text |-> Join(<<<<"(">>, CmpText(c), <<")">>>>), kind |-> "single",
      c1 |-> c, c2 |-> c, c3 |-> c] : c \in EqComparisonsOf(<<"a">>)}
    \cup {[text |-> Join(<<<<"(">>, CmpText(c1), or_, CmpText(c2), <<")">>, and_, CmpText(c3)>>),
           kind |-> "left", c1 |-> c1, c2 |-> c2, c3 |-> c3] :
            c1 \in EqComparisonsOf(<<"a">>), c2 \in EqComparisonsOf(<<"b">>),
            c3 \in {Cmp(<<"a">>, <<"=", "=">>, MaxNum)}}
    \cup {[text |-> Join(<<CmpText(c1), and_, <<"(">>, CmpText(c2), or_, CmpText(c3), <<")">>>>),
           kind |-> "right", c1 |-> c1, c2 |-> c2, c3 |-> c3] :
            c1 \in {Cmp(<<"a">>, <<"=", "=">>, MaxNum)}, c2 \in EqComparisonsOf(<<"b">>),
            c3 \in EqComparisonsOf(<<"a">>)}

Texts(qs) == {q.text : q \in qs}

Queries ==
    Texts(SingleQueries) \cup Texts(PairQueries) \cup Texts(TripleQueries)
    \cup Texts(NotAndQueries) \cup BareQueries \cup Texts(TrailQueries)
    \cup Texts(EqSignQueries) \cup BadAttrQueries \cup Texts(GoodAttrQueries)
    \cup Texts(StringQueries) \cup {ExampleQuery}
    \cup Texts(SpellingQueries) \cup Texts(ParenQueries)

\* the numbers a generated row may hold
Vals == {IntV(v) : v \in 0..MaxNum}

\* {avg: 0.7, active: "true"} and {avg: 0.3, active: "true"}
ExampleRow(m) == (<<"a", "v", "g">> :> FloatV(m, -1) @@ <<"a", "c", "t", "i", "v", "e">> :> StrV(<<"t", "r", "u", "e">>))

ExampleRows == {ExampleRow(7), ExampleRow(3)}

\* rows with columns a and b holding numbers, rows whose b holds the string
\* "x", a row without column a, and the example rows
Rows == [{<<"a">>, <<"b">>} -> Vals]
        \cup {(<<"a">> :> v @@ <<"b">> :> StrV(<<"x">>)) : v \in Vals}
        \cup {(<<"b">> :> IntV(MaxNum))}
        \cup ExampleRows

(***************************************************************************)
(* csv_query (src/csvpred.py): parse the query once, then pull the rows    *)
(* of the reader through run_filter one by one, keep those with a truthy   *)
(* result, and print the kept rows.                                        *)
(***************************************************************************)
\* the longest input file explored, in rows
MaxRows == 2

VARIABLES
    pc,       \* "start", "filter", "done", "syntax_error" or "data_error"
    query,    \* arguments.query
    ast,      \* what parser.parse() gave: the AST, or the ParserException
    n,        \* the number of rows read from the reader
    row,      \* the row run_filter was last called with
    outcome,  \* what that call returned or raised
    results   \* the rows kept so far, in order

vars == <<pc, query, ast, n, row, outcome, results>>

NoRow == [c \in {} |-> NoneV]

Init ==
    /\ pc = "start"
    /\ query \in Queries
    /\ ast = [ok |-> FALSE, row |-> 0, column |-> 0, ast |-> <<>>]
    /\ n = 0
    /\ row = NoRow
    /\ outcome = Returned(NoneV, <<>>)
    /\ results = <<>>

\* a run that reads a row of the source before it parses the query, which
\* csv_query does not do
csv_query_parse_after_read ==
    /\ pc = "start"
    /\ ast' = Parser_parse(query)
    /\ pc' = IF ast'.ok THEN "filter" ELSE "syntax_error"
    /\ n' = n + 1
    /\ row' \in Rows
    /\ UNCHANGED <<query, outcome, results>>

\* ast = parser.parse(); a ParserException ends csv_query before any row is read
csv_query_parse ==
    /\ pc = "start"
    /\ ast' = Parser_parse(query)
    /\ pc' = IF ast'.ok THEN "filter" ELSE "syntax_error"
    /\ UNCHANGED <<query, n, row, outcome, results>>

\* a filter with memory, which csv_query does not have: a row is also kept
\* when the row before it was kept
csv_query_filter_with_memory(r) ==
    /\ pc = "filter"
    /\ n < MaxRows
    /\ n' = n + 1
    /\ row' = r
    /\ outcome' = run_filter(ast.ast, r)
    /\ pc' = IF outcome'.err = "none" THEN "filter" ELSE "data_error"
    /\ results' = IF outcome'.err = "none" /\ (Truthy(outcome'.val) \/ Truthy(outcome.val))
                  THEN Append(results, r)
                  ELSE results
    /\ UNCHANGED <<query, ast>>

\* filter(filter_fn, reader) pulls the next row r: run_filter(r) decides
\* whether it is kept; an exception of run_filter ends csv_query
csv_query_filter(r) ==
    /\ pc = "filter"
    /\ n < MaxRows
    /\ n' = n + 1
    /\ row' = r
    /\ outcome' = run_filter(ast.ast, r)
    /\ pc' = IF outcome'.err = "none" THEN "filter" ELSE "data_error"
    /\ results' = IF outcome'.err = "none" /\ Truthy(outcome'.val)
                  THEN Append(results, r) ELSE results
    /\ UNCHANGED <<query, ast>>

\* the reader is exhausted: print(json.dumps(list(results)))
csv_query_print ==
    /\ pc = "filter"
    /\ pc' = "done"
    /\ UNCHANGED <<query, ast, n, row, outcome, results>>

Next ==
    \/ csv_query_parse
    \/ \E r \in Rows : csv_query_filter(r)
    \/ csv_query_print

Spec == Init /\ [][Next]_vars

(***************************************************************************)
(* Properties.  Parsed: parser.parse() has run, so ast holds its result.   *)
(* Filtered: run_filter has run on row, so outcome holds its result.       *)
(***************************************************************************)
Parsed == pc # "start"

Filtered == n > 0

\* the AST of the query `.name op literal`
ComparisonQuery(name, op, lit) ==
    <<Node("Grammar", <<Node("Expression", <<Node("Comparison",
        <<Node("Identifier", <<Node("Attribute", <<StrV(name)>>)>>),
          Node("CmpOperator", <<StrV(op)>>),
          Node("LiteralValue", <<lit>>)>>)>>)>>)>>

\* ri: what the comparison c, as a query of its own, gives on the current row
ResultOf(c) == run_filter(ComparisonQuery(c.attr, c.op, IntV(c.lit)), row)

IsTrue(c) == ResultOf(c).val = BoolV(TRUE)

\* the row holds every column the comparisons cs refer to
HoldsColumns(cs) == \A c \in cs : c.attr \in DOMAIN row

\* the comparisons cs give a boolean on the current row
Comparable(cs) == \A c \in cs : ResultOf(c).err = "none"

\* conjunction, disjunction and inequality of two booleans
Combine(k, x, y) == IF k = and_ THEN x /\ y
                    ELSE IF k = or_ THEN x \/ y
                    ELSE x # y

\* what the precedence AND > OR > XOR gives for `c1 OP1 c2 OP2 c3`
PrecedenceValue(q) ==
    IF q.op1 = or_ /\ q.op2 = and_ THEN IsTrue(q.c1) \/ (IsTrue(q.c2) /\ IsTrue(q.c3))
    ELSE IF q.op1 = and_ /\ q.op2 = or_ THEN (IsTrue(q.c1) /\ IsTrue(q.c2)) \/ IsTrue(q.c3)
    ELSE IsTrue(q.c1) # (IsTrue(q.c2) \/ IsTrue(q.c3))

\* C1: AND binds tighter than OR, and OR tighter than XOR: `c1 OR c2 AND c3`
\* parses and evaluates as c1 OR (c2 AND c3), `c1 AND c2 OR c3` as
\* (c1 AND c2) OR c3, and `c1 XOR c2 OR c3` as c1 XOR (c2 OR c3).
C1_Precedence ==
    \A q \in TripleQueries :
        query = q.text =>
            /\ Parsed => ast.ok
            /\ Filtered /\ HoldsColumns({q.c1, q.c2, q.c3}) /\ Comparable({q.c1, q.c2, q.c3})
                => outcome = Returned(BoolV(PrecedenceValue(q)), outcome.trace)

\* C2: `NOT c1 AND c2` parses and evaluates as (NOT c1) AND c2, the negation
\* binding tighter than the conjunction.
C2_NotBindsTighter ==
    \A q \in NotAndQueries :
        query = q.text =>
            /\ Parsed => ast.ok
            /\ Filtered /\ HoldsColumns({q.c1, q.c2}) /\ Comparable({q.c1, q.c2})
                => outcome = Returned(BoolV(~IsTrue(q.c1) /\ IsTrue(q.c2)), outcome.trace)

\* C3: a comparison whose attribute names a column the row does not hold ends
\* in a data error for that row, whatever the comparison operator; it never
\* yields a boolean by way of a substituted null.
C3_MissingColumnIsError ==
    \A q \in SingleQueries :
        query = q.text /\ Filtered /\ q.c1.attr \notin DOMAIN row
            => outcome.err # "none" /\ pc = "data_error"

\* the classes of the operands at the leaves of an AST: what is left when the
\* expression, negation and binary nodes and their operators are taken away
RECURSIVE OperandsOf(_)
OperandsOf(node) ==
    IF node.type \in {"Grammar", "Expression", "NegateExpression", "BinaryExpression",
                      "ParseResults"}
    THEN UNION {OperandsOf(node.children[i]) : i \in DOMAIN node.children}
    ELSE IF node.type \in {"BoolUnaryOperator", "BoolBinaryOperator"} THEN {}
    ELSE {node.type}

\* C4: the only atomic predicate is a comparison: a bare attribute, a bare
\* literal and the empty query are rejected with a syntax error, and every
\* operand at the leaves of a parsed AST is a Comparison.
C4_OnlyComparisons ==
    Parsed =>
        /\ query \in BareQueries => ~ast.ok /\ pc = "syntax_error"
        /\ ast.ok => \A i \in DOMAIN ast.ast : OperandsOf(ast.ast[i]) = {"Comparison"}

\* C5: parse succeeds only when the grammar consumes the whole input: a valid
\* query followed by further non-blank characters is a syntax error, never
\* the AST of the prefix.
C5_ParseAll ==
    \A q \in TrailQueries :
        query = q.text /\ Parsed => ~ast.ok /\ pc = "syntax_error"

\* C6: a BinaryExpression evaluates its left operand and then its right
\* operand whatever the operator and the left result, so that an error the
\* right operand raises ends the evaluation even when the left result alone
\* decides the outcome.
C6_NoShortCircuit ==
    \A q \in PairQueries :
        query = q.text /\ Filtered /\ ResultOf(q.c1).err = "none"
            => /\ outcome.trace = <<q.c1.attr, q.c2.attr>>
               /\ ResultOf(q.c2).err # "none"
                      => outcome.err = ResultOf(q.c2).err /\ pc = "data_error"

\* `c1 AND c2` on a row where c1 is false and c2 raises: the error has surfaced
C6_RightErrorSurfaces ==
    \E q \in PairQueries :
        /\ q.op = and_ /\ query = q.text /\ Filtered
        /\ ResultOf(q.c1) = Returned(BoolV(FALSE), <<q.c1.attr>>)
        /\ ResultOf(q.c2).err = "TypeError"
        /\ outcome = Raised("TypeError", <<q.c1.attr, q.c2.attr>>)
        /\ pc = "data_error"

\* C7: a query with a single `=` in the place of a comparison operator fails
\* with a syntax error at line 1 and the 1-based column of that `=`; for
\* `.avg = 0.5` that is line 1 col 6.
C7_EqSignPosition ==
    \A q \in EqSignQueries :
        query = q.text /\ Parsed
            => ~ast.ok /\ pc = "syntax_error" /\ ast.row = 1 /\ ast.column = q.column

\* C8: an attribute name starts with a letter or an underscore: `.123 == 0.5`
\* and `.+avg == 0.5` are syntax errors at line 1 col 2, the character after
\* the dot, while `.Avg == 0.5` and `._avg == 0.5` parse to an Attribute of
\* exactly that name.
C8_AttributeNameStart ==
    Parsed =>
        /\ query \in BadAttrQueries => ~ast.ok /\ ast.row = 1 /\ ast.column = 2
        /\ \A q \in GoodAttrQueries :
               query = q.text
                   => ast.ok /\ ast.ast = ComparisonQuery(q.name, <<"=", "=">>, FloatV(5, -1))

\* C9: the single-quoted, double-quoted and bare forms of a string literal are
\* equivalent: each parses to the same AST, whose LiteralValue holds the text;
\* quoted texts may hold spaces and punctuation, and may be empty.
C9_StringForms ==
    \A q \in StringQueries :
        query = q.text /\ Parsed
            => ast.ok /\ ast.ast = ComparisonQuery(<<"n", "a", "m", "e">>, <<"=", "=">>, StrV(q.str))

\* C10: `c1 OP c2`, on a row that holds the columns of c1 and c2 with
\* comparable values, evaluates to the boolean r1 and r2 for AND, r1 or r2 for
\* OR and r1 # r2 for XOR; `.avg >= 0.5 AND .active == true` is true on
\* {avg: 0.7, active: "true"} and false on {avg: 0.3, active: "true"}.
C10_BinaryOperators ==
    /\ \A q \in PairQueries :
           query = q.text =>
               /\ Parsed => ast.ok
               /\ Filtered /\ HoldsColumns({q.c1, q.c2}) /\ Comparable({q.c1, q.c2})
                   => outcome = Returned(BoolV(Combine(q.op, IsTrue(q.c1), IsTrue(q.c2))),
                                         <<q.c1.attr, q.c2.attr>>)
    /\ query = ExampleQuery =>
           /\ Parsed => ast.ok
           /\ Filtered /\ row \in ExampleRows
               => outcome.err = "none" /\ outcome.val = BoolV(row = ExampleRow(7))

\* `c1 XOR c2` on a row where c1 is true and c2 is false: the result is true
C10_XorOfTrueAndFalse ==
    \E q \in PairQueries :
        /\ q.op = xor_ /\ query = q.text /\ Filtered
        /\ HoldsColumns({q.c1, q.c2})
        /\ IsTrue(q.c1) /\ ResultOf(q.c2) = Returned(BoolV(FALSE), <<q.c2.attr>>)
        /\ outcome.val = BoolV(TRUE) /\ row \in Range(results)

\* the AST of the query `NOT c`
NegationQuery(c) ==
    <<Node("Grammar", <<Node("Expression", <<Node("NegateExpression",
        <<Node("Expression", <<ComparisonQuery(c.attr, c.op, IntV(c.lit))[1].children[1].children[1]>>)>>)>>)>>)>>

\* C11: the spellings of a boolean operator are interchangeable: a keyword in
\* another letter case or its symbol alias in the place of the keyword changes
\* neither whether the query parses nor its result on a row; `not c`, `NOT c`
\* and `! c` all parse to Grammar(Expression(NegateExpression(Expression(c)))).
C11_SpellingsInterchangeable ==
    /\ \A q \in SpellingQueries :
           query = q.text /\ Parsed =>
               /\ ast.ok = Parser_parse(q.base).ok
               /\ Filtered /\ ast.ok
                   => LET base == run_filter(Parser_parse(q.base).ast, row)
                      IN  outcome.err = base.err /\ outcome.val = base.val
    /\ \A q \in NegationQueries :
           query = q.text /\ Parsed => ast.ok /\ ast.ast = NegationQuery(q.c1)

\* what the parentheses of a ParenQueries text give
ParenValue(q) ==
    IF q.kind = "single" THEN IsTrue(q.c1)
    ELSE IF q.kind = "left" THEN (IsTrue(q.c1) \/ IsTrue(q.c2)) /\ IsTrue(q.c3)
    ELSE IsTrue(q.c1) /\ (IsTrue(q.c2) \/ IsTrue(q.c3))

\* C12: parentheses are supported at every level and override precedence:
\* `( c1 )` evaluates to r1, `( c1 OR c2 ) AND c3` to (r1 OR r2) AND r3 and
\* `c1 AND ( c2 OR c3 )` to r1 AND (r2 OR r3), each parsing and evaluating
\* without error.
C12_Parentheses ==
    \A q \in ParenQueries :
        query = q.text =>
            /\ Parsed => ast.ok
            /\ Filtered /\ HoldsColumns({q.c1, q.c2, q.c3}) /\ Comparable({q.c1, q.c2, q.c3})
                => outcome = Returned(BoolV(ParenValue(q)), outcome.trace)

\* the classes of the AST nodes
NodeClasses == {"Grammar", "Expression", "NegateExpression", "BinaryExpression",
                "Comparison", "Identifier", "Attribute", "CmpOperator", "LiteralValue",
                "BoolUnaryOperator", "BoolBinaryOperator", "ParseResults"}

\* the nodes of the tree below and including node
RECURSIVE NodesOf(_)
NodesOf(node) ==
    IF node.type \in NodeClasses
    THEN {node} \cup UNION {NodesOf(node.children[i]) : i \in DOMAIN node.children}
    ELSE {}

\* the nodes of the parsed AST
AstNodes == UNION {NodesOf(ast.ast[i]) : i \in DOMAIN ast.ast}

\* the current row holds every column the AST refers to, with a value its
\* comparison can compare with the literal
RowFitsAst ==
    \A node \in AstNodes :
        /\ node.type = "Attribute" => node.children[1].str \in DOMAIN row
        /\ node.type = "Comparison" => Comparison_evaluate(node, row).err = "none"

\* C13: a query that parse accepts can be evaluated: on every row that holds
\* the referenced columns with comparable values the evaluation of the Grammar
\* root returns a boolean and raises no error.
C13_ParsedIsEvaluable ==
    Parsed /\ ast.ok /\ Filtered /\ RowFitsAst
        => outcome.err = "none" /\ outcome.val.type = "bool"

\* the classes of the children of a node, in order
ChildClasses(node) == [i \in DOMAIN node.children |-> node.children[i].type]

\* the operator values a BinaryExpression may hold: the keywords and symbols
BinaryOperatorValues ==
    BinaryKeywords \cup {SymbolOf(kw) : kw \in BinaryKeywords}

\* the node has the children its row of the variant table lists
ConformsToVariant(node) ==
    /\ node.type = "Grammar" => ChildClasses(node) = <<"Expression">>
    /\ node.type = "Comparison"
           => ChildClasses(node) = <<"Identifier", "CmpOperator", "LiteralValue">>
    /\ node.type = "BinaryExpression"
           => /\ ChildClasses(node) = <<"Expression", "BoolBinaryOperator", "Expression">>
              /\ node.children[2].children[1].str \in BinaryOperatorValues
    /\ node.type = "NegateExpression" => ChildClasses(node) = <<"Expression">>

\* C14: every AST of a successful parse conforms to the variant table: the
\* Grammar root has one child, an Expression; a Comparison has the children
\* Identifier, CmpOperator, LiteralValue; a BinaryExpression has Expression,
\* BoolBinaryOperator, Expression with an operator of AND, OR, XOR or their
\* aliases; a NegateExpression has one Expression child.
C14_VariantTable ==
    Parsed /\ ast.ok
        => /\ ChildClasses(Node("ParseResults", ast.ast)) = <<"Grammar">>
           /\ \A node \in AstNodes : ConformsToVariant(node)

C17_NothingDiscarded ==
    \A q \in TrailQueries :
        query = q.text /\ Parsed /\ ast.ok
            => /\ ast.ast # ComparisonQuery(q.c1.attr, q.c1.op, IntV(q.c1.lit))
               /\ q.trailer = <<".", "b">> => Node("Attribute", <<StrV(<<"b">>)>>) \in AstNodes

====
